---- MODULE Spec2Model ----
\* Model of judge/signals.py: the post_save / post_delete receivers that
\* invalidate cached fragments and cached PDFs and keep Submission.contest_object
\* and Profile.is_webauthn_enabled in step with dependent records.
\*
\* One action is one persistence event together with the whole synchronous
\* reaction to it: the receiver bound to (sender, signal) and every receiver
\* that runs because of a Model.save() made inside that reaction.
EXTENDS Integers, Sequences, FiniteSets, TLC

\* ------------------------------------------------------------------ bounds
NProblems == 2
NProfiles == 2
NContests == 2
NOrganizations == 2
NSubmissions == 2
NContestSubmissions == 2
NContestProblems == 2
NParticipations == 2
NCredentials == 3
NSimple == 2
MaxEvents == 2

ProblemIds == 1..NProblems
ProfileIds == 1..NProfiles
ContestIds == 1..NContests
OrganizationIds == 1..NOrganizations
SubmissionIds == 1..NSubmissions
ContestSubmissionIds == 1..NContestSubmissions
ParticipationIds == 1..NParticipations
ContestProblemIds == 1..NContestProblems
CredentialIds == 1..NCredentials
SimpleIds == 1..NSimple

\* SQL NULL in a foreign-key column, Python None as a function result.
NULL == 0
None == "<None>"

\* ---------------------------------------------------------------- settings
\* settings.LANGUAGES: a list of (code, name) pairs.
LANGUAGES == << <<"en", "English">>, <<"fr", "French">> >>

\* judge.models.EFFECTIVE_MATH_ENGINES
EFFECTIVE_MATH_ENGINES == <<"svg", "jax">>

\* A configured value of settings.DMOJ_PDF_PROBLEM_CACHE.
PdfCacheDir == "/pdfcache"

Range(s) == {s[i] : i \in 1..Len(s)}

\* ------------------------------------------------------------ fixed fields
\* Columns no receiver of this file writes: they are fixed per row.
Problem_code(id) == "p" \o ToString(id)
Submission_user(id) == 1 + ((id - 1) % NProfiles)
Submission_problem(id) == 1
Participation_contest(id) == 1 + (id % NContests)
ContestProblem_contest(id) == 1 + ((id - 1) % NContests)
WebAuthnCredential_user(id) == 1 + (((id - 1) \div 2) % NProfiles)

\* An in-memory model instance: the row it stands for and how it was loaded.
\* Two instances of one row are two Python objects with separate attributes.
Instance(model, id, via, n) == [model |-> model, id |-> id, via |-> via, n |-> n]

\* instance.user / instance.problem of a Submission instance and instance.user
\* of a WebAuthnCredential instance: the related object cached on the instance.
Related(model, id, sender, n) == Instance(model, id, sender, n)

\* Instances the rest of the application holds.  "view": loaded for an
\* ordinary edit.  "stats": a Contest loaded and marked for a stats-only resave.
Problems == {Instance("Problem", p, "view", 0) : p \in ProblemIds}
    \cup {Related("Problem", Submission_problem(s), "Submission", s) : s \in SubmissionIds}
Profiles == {Instance("Profile", p, "view", 0) : p \in ProfileIds}
    \cup {Related("Profile", Submission_user(s), "Submission", s) : s \in SubmissionIds}
Contests == {Instance("Contest", c, v, 0) : c \in ContestIds, v \in {"view", "stats"}}
SimpleModels == {"License", "Language", "Judge", "Comment", "BlogPost", "Organization"}
Simples == {Instance(m, i, v, 0) : m \in SimpleModels, i \in SimpleIds, v \in {"view", "stats"}}
MiscConfigs == {Instance("MiscConfig", i, v, 0) : i \in SimpleIds, v \in {"view", "stats"}}
Submissions == {Instance("Submission", s, "delete", 0) : s \in SubmissionIds}
WebAuthnCredentials == {Instance("WebAuthnCredential", k, "delete", 0) : k \in CredentialIds}
ContestProblems == {Instance("ContestProblem", k, "delete", 0) : k \in ContestProblemIds}

\* A ContestSubmission instance carries the two columns the receivers read.
ContestSubmissionInstance(id, submission_id, participation) ==
    [model |-> "ContestSubmission", id |-> id, via |-> "view", n |-> 0,
     submission_id |-> submission_id, participation |-> participation]

\* -------------------------------------------------------------------- state
VARIABLES
    cache,                  \* keys present in django.core.cache.cache
    files,                  \* path -> "file" | "absent" | "denied"
    DMOJ_PDF_PROBLEM_CACHE, \* the setting; "" when unset
    updating_stats_only,    \* instances carrying _updating_stats_only
    Submission,             \* id -> [exists, contest_object]
    ContestSubmission,      \* id -> [exists, submission_id, participation]
    ContestProblem,         \* ids of the existing ContestProblem rows
    WebAuthnCredential,     \* ids of the existing WebAuthnCredential rows
    Profile,                \* id -> [is_webauthn_enabled, organizations]
    event,                  \* the last persistence event
    ran,                    \* receivers of this file run in reaction to it, in order
    calls,                  \* collaborator calls and saves made in reaction to it
    raised,                 \* the reaction ended by propagating an exception
    unlinks,                \* <<path, errno>> of every os.unlink it made, in order
    updated,                \* ids of the Submission rows its UPDATE statements matched
    csLast,                 \* submission id -> last ContestSubmission event for it
    nevents                 \* events handled so far

vars == <<cache, files, DMOJ_PDF_PROBLEM_CACHE, updating_stats_only, Submission,
          ContestSubmission, ContestProblem, WebAuthnCredential, Profile,
          event, ran, calls, raised, unlinks, updated, csLast, nevents>>

\* The part of the state a reaction reads and writes, threaded through the
\* receivers in program order.
World == [cache |-> cache, files |-> files,
          updating_stats_only |-> updating_stats_only,
          Submission |-> Submission, ContestSubmission |-> ContestSubmission,
          ContestProblem |-> ContestProblem,
          WebAuthnCredential |-> WebAuthnCredential, Profile |-> Profile,
          resave |-> {}, ran |-> <<>>, calls |-> <<>>, raised |-> FALSE,
          unlinks |-> <<>>, updated |-> {}]

\* ------------------------------------------------------------ cache helpers
RECURSIVE JoinVary(_)
JoinVary(vary_on) ==
    IF vary_on = <<>> THEN ""
    ELSE Head(vary_on) \o ":" \o JoinVary(Tail(vary_on))

\* django.core.cache.utils.make_template_fragment_key: 'template.cache.%s.%s'
\* of the fragment name and the md5 digest of every str(arg) followed by ':'.
\* The digest is kept as its preimage (md5 taken as collision free).
make_template_fragment_key(fragment_name, vary_on) ==
    "template.cache." \o fragment_name \o "." \o JoinVary(vary_on)

str(n) == ToString(n)

cache_delete_many(w, keys) == [w EXCEPT !.cache = @ \ Range(keys)]

cache_delete(w, key) == [w EXCEPT !.cache = @ \ {key}]

Enter(w, receiver) == [w EXCEPT !.ran = Append(@, receiver)]

Call(w, fn, instance) ==
    [w EXCEPT !.calls = Append(@, [fn |-> fn, on |-> instance,
                                   flagged |-> instance \in w.updating_stats_only])]

\* Faulty variant: the attribute looked up is never the one that was set.
hasattr_never(w, instance) == FALSE

hasattr_updating_stats_only(w, instance) == instance \in w.updating_stats_only

\* ------------------------------------------------------------------- files
os_path_join(dir, basename) == dir \o "/" \o basename

get_pdf_path(basename) ==
    IF DMOJ_PDF_PROBLEM_CACHE = "" THEN None
    ELSE os_path_join(DMOJ_PDF_PROBLEM_CACHE, basename)

\* os.unlink: removes a file; ENOENT for a missing one; EACCES for one the
\* process may not remove.
os_unlink(w, file) ==
    IF file \notin DOMAIN w.files \/ w.files[file] = "absent"
        THEN [w |-> w, errno |-> "ENOENT"]
    ELSE IF w.files[file] = "denied"
        THEN [w |-> w, errno |-> "EACCES"]
    ELSE [w |-> [w EXCEPT !.files[file] = "absent"], errno |-> "OK"]

\* Faulty variant: every OSError is swallowed, not only ENOENT.
unlink_if_exists_swallow(w, file) ==
    LET u == os_unlink(w, file)
    IN  [u EXCEPT !.w.unlinks = Append(@, <<file, u.errno>>)].w

unlink_if_exists(w, file) ==
    LET u == os_unlink(w, file)
        r == [u EXCEPT !.w.unlinks = Append(@, <<file, u.errno>>)]
    IN  IF r.errno = "OK" THEN r.w
        ELSE IF r.errno # "ENOENT" THEN [r.w EXCEPT !.raised = TRUE]
        ELSE r.w

\* -------------------------------------------------------------- problem_update
MapSeq(s, F(_)) == [i \in 1..Len(s) |-> F(s[i])]

RECURSIVE Flatten(_)
Flatten(ss) == IF ss = <<>> THEN <<>> ELSE Head(ss) \o Flatten(Tail(ss))

\* The loop of lines 47-50, from the i-th language on; an exception ends it.
RECURSIVE problem_update_unlink(_, _, _)
problem_update_unlink(w, instance, i) ==
    IF w.raised \/ i > Len(LANGUAGES) THEN w
    ELSE LET lang == LANGUAGES[i][1]
             cached_pdf_filename ==
                 get_pdf_path(Problem_code(instance.id) \o "." \o lang \o ".pdf")
             w1 == IF cached_pdf_filename # None
                       THEN unlink_if_exists(w, cached_pdf_filename)
                       ELSE w
         IN  problem_update_unlink(w1, instance, i + 1)

\* Faulty variant: languages and engines paired up instead of crossed.
problem_html_keys_zip(id) ==
    [i \in 1..Len(LANGUAGES) |->
        make_template_fragment_key("problem_html",
            <<id, EFFECTIVE_MATH_ENGINES[i], LANGUAGES[i][1]>>)]

\* The list of lines 41-42: for lang in LANGUAGES, for engine in the engines.
problem_html_keys(id) ==
    LET html(l) == MapSeq(EFFECTIVE_MATH_ENGINES,
                     LAMBDA engine: make_template_fragment_key("problem_html",
                                                               <<id, engine, l[1]>>))
    IN  Flatten(MapSeq(LANGUAGES, html))

problem_update(w0, instance) ==
    LET w == Enter(w0, "problem_update")
        id == str(instance.id)
        authors(l) == make_template_fragment_key("problem_authors", <<id, l[1]>>)
        meta(l) == "generated-meta-problem:" \o l[1] \o ":" \o id
        w1 == cache_delete_many(w, <<
                  make_template_fragment_key("submission_problem", <<id>>),
                  make_template_fragment_key("problem_feed", <<id>>),
                  "problem_tls:" \o id, "problem_mls:" \o id >>)
        w2 == cache_delete_many(w1, problem_html_keys(id))
        w3 == cache_delete_many(w2, MapSeq(LANGUAGES, authors))
        w4 == cache_delete_many(w3, MapSeq(LANGUAGES, meta))
    IN  IF hasattr_updating_stats_only(w, instance) THEN w
        ELSE problem_update_unlink(w4, instance, 1)

\* -------------------------------------------------------------- profile_update
\* Faulty variant: only the first organization is listed.
values_list_first(S) ==
    IF S = {} THEN <<>>
    ELSE <<CHOOSE x \in S : \A y \in S : x <= y>>

\* instance.organizations.values_list('id', flat=True), in id order.
RECURSIVE values_list(_)
values_list(S) ==
    IF S = {} THEN <<>>
    ELSE LET m == CHOOSE x \in S : \A y \in S : x <= y
         IN  <<m>> \o values_list(S \ {m})

\* Faulty variant: the member count of every organization is dropped.
profile_update_all_orgs(w0, instance) ==
    LET w == Enter(w0, "profile_update")
        id == str(instance.id)
        about(engine) == make_template_fragment_key("user_about", <<id, engine>>)
        members(org_id) == make_template_fragment_key("org_member_count", <<str(org_id)>>)
    IN  IF hasattr_updating_stats_only(w, instance) THEN w
        ELSE cache_delete_many(w,
                 MapSeq(EFFECTIVE_MATH_ENGINES, about) \o
                 MapSeq(values_list(OrganizationIds), members))

profile_update(w0, instance) ==
    LET w == Enter(w0, "profile_update")
        id == str(instance.id)
        about(engine) == make_template_fragment_key("user_about", <<id, engine>>)
        members(org_id) == make_template_fragment_key("org_member_count", <<str(org_id)>>)
    IN  IF hasattr_updating_stats_only(w, instance) THEN w
        ELSE cache_delete_many(w,
                 MapSeq(EFFECTIVE_MATH_ENGINES, about) \o
                 MapSeq(values_list(w.Profile[instance.id].organizations), members))

\* -------------------------------------------------------------- contest_update
contest_update(w0, instance) ==
    LET w == Enter(w0, "contest_update")
        id == str(instance.id)
        html(engine) == make_template_fragment_key("contest_html", <<id, engine>>)
    IN  IF hasattr_updating_stats_only(w, instance) THEN w
        ELSE cache_delete_many(w, <<"generated-meta-contest:" \o id>> \o
                                  MapSeq(EFFECTIVE_MATH_ENGINES, html))

\* ---------------------------------------------------------- nested dispatch
\* Then(w, F): the next statement runs unless an exception is propagating.
Then(w, F(_)) == IF w.raised THEN w ELSE F(w)

\* Model.save() on an instance: the row is written and post_save is sent to
\* the receiver registered for the instance's model (lines 31, 53, 72).
Model_save(w, instance) ==
    LET w1 == Call(w, "save", instance)
    IN  CASE instance.model = "Problem" -> problem_update(w1, instance)
          [] instance.model = "Profile" -> profile_update(w1, instance)
          [] instance.model = "Contest" -> contest_update(w1, instance)
          [] OTHER -> w1

\* QuerySet.update(contest_object=value) on the Submission rows matching
\* pred: one SQL UPDATE, which sends no signal.
Submission_update_contest_object(w, pred(_), value) ==
    LET matched == {s \in DOMAIN w.Submission : w.Submission[s].exists /\ pred(s)}
    IN  [w EXCEPT !.Submission =
                      [s \in DOMAIN w.Submission |->
                          IF s \in matched
                              THEN [w.Submission[s] EXCEPT !.contest_object = value]
                              ELSE w.Submission[s]],
                  !.updated = @ \cup matched]

\* setattr(instance, '_updating_stats_only', True)
set_updating_stats_only(w, instance) ==
    [w EXCEPT !.updating_stats_only = @ \cup {instance}]

\* --------------------------------------------------------------- collaborators
\* Recomputations implemented outside this file.  Each is recorded as a call;
\* calculate_points and update_stats save the object they are called on when
\* the reaction's input says the recomputed value has to be persisted.
finished_submission(w, sub) == Call(w, "finished_submission", sub)

calculate_points(w, user) ==
    LET w1 == Call(w, "calculate_points", user)
    IN  IF "calculate_points" \in w.resave THEN Model_save(w1, user) ELSE w1

update_stats(w, problem) ==
    LET w1 == Call(w, "update_stats", problem)
    IN  IF "update_stats" \in w.resave THEN Model_save(w1, problem) ELSE w1

recompute_results(w, participation) == Call(w, "recompute_results", participation)

\* -------------------------------------------------------------- webauthn_delete
webauthn_credentials_count(w, profile) ==
    Cardinality({k \in w.WebAuthnCredential : WebAuthnCredential_user(k) = profile.id})

\* Faulty variant: the profile is saved whatever the number of remaining credentials.
webauthn_delete_always_save(w0, instance) ==
    LET w == Enter(w0, "webauthn_delete")
        profile == Related("Profile", WebAuthnCredential_user(instance.id),
                           "WebAuthnCredential", instance.id)
    IN  Model_save([w EXCEPT !.Profile[profile.id].is_webauthn_enabled =
                                 @ /\ webauthn_credentials_count(w, profile) # 0],
                   profile)

\* Faulty variant: the count is compared as if the deleted row were still counted.
webauthn_delete_off_by_one(w0, instance) ==
    LET w == Enter(w0, "webauthn_delete")
        profile == Related("Profile", WebAuthnCredential_user(instance.id),
                           "WebAuthnCredential", instance.id)
    IN  IF webauthn_credentials_count(w, profile) = 1
            THEN Model_save([w EXCEPT !.Profile[profile.id].is_webauthn_enabled = FALSE],
                            profile)
            ELSE w

webauthn_delete(w0, instance) ==
    LET w == Enter(w0, "webauthn_delete")
        profile == Related("Profile", WebAuthnCredential_user(instance.id),
                           "WebAuthnCredential", instance.id)
    IN  IF webauthn_credentials_count(w, profile) = 0
            THEN Model_save([w EXCEPT !.Profile[profile.id].is_webauthn_enabled = FALSE],
                            profile)
            ELSE w

\* ------------------------------------------------------- contest_problem_delete
\* Faulty variant: the contest__isnull=True condition is missing from the filter.
contest_problem_delete_all(w0, instance) ==
    LET w == Enter(w0, "contest_problem_delete")
        contest == ContestProblem_contest(instance.id)
    IN  Submission_update_contest_object(w,
            LAMBDA s : w.Submission[s].contest_object = contest, NULL)

\* Faulty variant: the contest is saved after the update, which sends
\* post_save for the Contest.
contest_problem_delete_save(w0, instance) ==
    LET w == Enter(w0, "contest_problem_delete")
        contest == ContestProblem_contest(instance.id)
        contest__isnull(s) ==
            ~ \E k \in DOMAIN w.ContestSubmission :
                  /\ w.ContestSubmission[k].exists
                  /\ w.ContestSubmission[k].submission_id = s
    IN  Model_save(Submission_update_contest_object(w,
                       LAMBDA s : w.Submission[s].contest_object = contest
                                  /\ contest__isnull(s),
                       NULL),
                   Related("Contest", contest, "ContestProblem", instance.id))

contest_problem_delete(w0, instance) ==
    LET w == Enter(w0, "contest_problem_delete")
        contest == ContestProblem_contest(instance.id)
        contest__isnull(s) ==
            ~ \E k \in DOMAIN w.ContestSubmission :
                  /\ w.ContestSubmission[k].exists
                  /\ w.ContestSubmission[k].submission_id = s
    IN  Submission_update_contest_object(w,
            LAMBDA s : w.Submission[s].contest_object = contest /\ contest__isnull(s),
            NULL)

\* ------------------------------------------------------------ simple receivers
license_update(w0, instance) ==
    cache_delete(Enter(w0, "license_update"),
                 make_template_fragment_key("license_html", <<str(instance.id)>>))

language_update(w0, instance) ==
    cache_delete_many(Enter(w0, "language_update"),
        <<make_template_fragment_key("language_html", <<str(instance.id)>>),
          "lang:cn_map">>)

judge_update(w0, instance) ==
    cache_delete(Enter(w0, "judge_update"),
                 make_template_fragment_key("judge_html", <<str(instance.id)>>))

comment_update(w0, instance) ==
    cache_delete(Enter(w0, "comment_update"), "comment_feed:" \o str(instance.id))

\* Faulty variant: the receiver carries the guard of the stats receivers.
post_update_guarded(w0, instance) ==
    LET w == Enter(w0, "post_update")
        id == str(instance.id)
        content(engine) == make_template_fragment_key("post_content", <<id, engine>>)
        w1 == cache_delete_many(w, <<
                  make_template_fragment_key("post_summary", <<id>>),
                  "blog_slug:" \o id,
                  "blog_feed:" \o id >>)
    IN  IF hasattr_updating_stats_only(w, instance) THEN w
        ELSE cache_delete_many(w1, MapSeq(EFFECTIVE_MATH_ENGINES, content))

post_update(w0, instance) ==
    LET w == Enter(w0, "post_update")
        id == str(instance.id)
        content(engine) == make_template_fragment_key("post_content", <<id, engine>>)
        w1 == cache_delete_many(w, <<
                  make_template_fragment_key("post_summary", <<id>>),
                  "blog_slug:" \o id,
                  "blog_feed:" \o id >>)
    IN  cache_delete_many(w1, MapSeq(EFFECTIVE_MATH_ENGINES, content))

organization_update(w0, instance) ==
    LET w == Enter(w0, "organization_update")
        html(engine) == make_template_fragment_key("organization_html",
                                                   <<str(instance.id), engine>>)
    IN  cache_delete_many(w, MapSeq(EFFECTIVE_MATH_ENGINES, html))

misc_config_update(w0, instance) ==
    cache_delete(Enter(w0, "misc_config_update"), "misc_config")

misc_config_delete(w0, instance) ==
    cache_delete(Enter(w0, "misc_config_delete"), "misc_config")

\* ------------------------------------------------------------ submission_delete
\* Faulty variant: update_stats is left out.
submission_delete_no_stats(w0, instance) ==
    LET w == Enter(w0, "submission_delete")
        user == Related("Profile", Submission_user(instance.id), "Submission", instance.id)
        problem == Related("Problem", Submission_problem(instance.id),
                           "Submission", instance.id)
        w1 == finished_submission(w, instance)
        w2 == Then(w1, LAMBDA v : set_updating_stats_only(v, user))
        w3 == Then(w2, LAMBDA v : calculate_points(v, user))
    IN  Then(w3, LAMBDA v : set_updating_stats_only(v, problem))

\* Faulty variant: each flag is set after the recomputation instead of before it.
submission_delete_flag_late(w0, instance) ==
    LET w == Enter(w0, "submission_delete")
        user == Related("Profile", Submission_user(instance.id), "Submission", instance.id)
        problem == Related("Problem", Submission_problem(instance.id),
                           "Submission", instance.id)
        w1 == finished_submission(w, instance)
        w2 == Then(w1, LAMBDA v : calculate_points(v, user))
        w3 == Then(w2, LAMBDA v : set_updating_stats_only(v, user))
        w4 == Then(w3, LAMBDA v : update_stats(v, problem))
    IN  Then(w4, LAMBDA v : set_updating_stats_only(v, problem))

submission_delete(w0, instance) ==
    LET w == Enter(w0, "submission_delete")
        user == Related("Profile", Submission_user(instance.id), "Submission", instance.id)
        problem == Related("Problem", Submission_problem(instance.id),
                           "Submission", instance.id)
        w1 == finished_submission(w, instance)
        w2 == Then(w1, LAMBDA v : set_updating_stats_only(v, user))
        w3 == Then(w2, LAMBDA v : calculate_points(v, user))
        w4 == Then(w3, LAMBDA v : set_updating_stats_only(v, problem))
    IN  Then(w4, LAMBDA v : update_stats(v, problem))

\* --------------------------------------------------- contest_submission_delete
\* Faulty variant: the Submission is looked up by the ContestSubmission's own id.
contest_submission_delete_by_id(w0, instance) ==
    LET w == Enter(w0, "contest_submission_delete")
        participation == Related("ContestParticipation", instance.participation,
                                 "ContestSubmission", instance.id)
        w1 == recompute_results(w, participation)
    IN  Then(w1, LAMBDA v : Submission_update_contest_object(v,
                                LAMBDA s : s = instance.id, NULL))

contest_submission_delete(w0, instance) ==
    LET w == Enter(w0, "contest_submission_delete")
        participation == Related("ContestParticipation", instance.participation,
                                 "ContestSubmission", instance.id)
        w1 == recompute_results(w, participation)
    IN  Then(w1, LAMBDA v : Submission_update_contest_object(v,
                                LAMBDA s : s = instance.submission_id, NULL))

\* --------------------------------------------------- contest_submission_update
\* Faulty variant: the participation's id is stored in place of its contest's id.
contest_submission_update_participation_id(w0, instance) ==
    LET w == Enter(w0, "contest_submission_update")
    IN  Submission_update_contest_object(w,
            LAMBDA s : s = instance.submission_id,
            instance.participation)

contest_submission_update(w0, instance) ==
    LET w == Enter(w0, "contest_submission_update")
    IN  Submission_update_contest_object(w,
            LAMBDA s : s = instance.submission_id,
            Participation_contest(instance.participation))

\* ------------------------------------------------------------- initial state
\* Ids with cached entries: every row of the model and one row (11) that no
\* event of the model touches.
CachedIds(ids) == {ToString(i) : i \in ids \cup {11}}
Engines == Range(EFFECTIVE_MATH_ENGINES)
LanguageCodes == {LANGUAGES[i][1] : i \in 1..Len(LANGUAGES)}

\* A warm cache: every entry the receivers of this file address, for every id.
CachedKeys ==
    LET ProblemC == CachedIds(ProblemIds)
        ProfileC == CachedIds(ProfileIds)
        ContestC == CachedIds(ContestIds)
        OrgC == CachedIds(OrganizationIds)
        SimpleC == CachedIds(SimpleIds)
    IN  {"template.cache." \o f \o "." \o i \o ":" :
            f \in {"submission_problem", "problem_feed"}, i \in ProblemC}
        \cup {f \o ":" \o i : f \in {"problem_tls", "problem_mls"}, i \in ProblemC}
        \cup {"template.cache.problem_html." \o i \o ":" \o e \o ":" \o l \o ":" :
                 i \in ProblemC, e \in Engines, l \in LanguageCodes}
        \cup {"template.cache.problem_authors." \o i \o ":" \o l \o ":" :
                 i \in ProblemC, l \in LanguageCodes}
        \cup {"generated-meta-problem:" \o l \o ":" \o i : i \in ProblemC, l \in LanguageCodes}
        \cup {"template.cache.user_about." \o i \o ":" \o e \o ":" :
                 i \in ProfileC, e \in Engines}
        \cup {"template.cache.org_member_count." \o i \o ":" : i \in OrgC}
        \cup {"generated-meta-contest:" \o i : i \in ContestC}
        \cup {"template.cache.contest_html." \o i \o ":" \o e \o ":" :
                 i \in ContestC, e \in Engines}
        \cup {"template.cache." \o f \o "." \o i \o ":" :
                 f \in {"license_html", "language_html", "judge_html", "post_summary"},
                 i \in SimpleC}
        \cup {f \o ":" \o i : f \in {"comment_feed", "blog_slug", "blog_feed"}, i \in SimpleC}
        \cup {"template.cache." \o f \o "." \o i \o ":" \o e \o ":" :
                 f \in {"post_content", "organization_html"}, i \in SimpleC, e \in Engines}
        \cup {"lang:cn_map", "misc_config"}

\* The cached PDFs of every problem in every language.
PdfFiles == {PdfCacheDir \o "/" \o Problem_code(p) \o "." \o l \o ".pdf" :
                p \in ProblemIds \cup {11}, l \in LanguageCodes}

\* Instances marked by the code that resaves them only to persist statistics.
Marked == {i \in Contests \cup Simples \cup MiscConfigs : i.via = "stats"}

NoEvent == [signal |-> "none", instance |-> Instance("none", 0, "none", 0)]
NoSubmission == [exists |-> FALSE, contest_object |-> NULL]
NoContestSubmission == [exists |-> FALSE, submission_id |-> NULL, participation |-> NULL]

InitLog ==
    /\ event = NoEvent
    /\ ran = <<>>
    /\ calls = <<>>
    /\ raised = FALSE
    /\ unlinks = <<>>
    /\ updated = {}
    /\ nevents = 0

InitCache ==
    /\ cache = CachedKeys
    /\ updating_stats_only = Marked

InitFiles ==
    /\ DMOJ_PDF_PROBLEM_CACHE = PdfCacheDir
    /\ files = [f \in PdfFiles |-> "file"]

InitContests ==
    /\ ContestSubmission = [k \in ContestSubmissionIds |-> NoContestSubmission]
    /\ ContestProblem = ContestProblemIds
    /\ csLast = [s \in SubmissionIds |-> "none"]

\* Submission 1 was made inside contest 1; its ContestSubmission is not saved yet.
InitSubmissions ==
    Submission = [s \in SubmissionIds |->
                     [exists |-> TRUE, contest_object |-> IF s = 1 THEN 1 ELSE NULL]]

InitProfiles ==
    /\ WebAuthnCredential = CredentialIds
    /\ Profile = [p \in ProfileIds |->
                     [is_webauthn_enabled |-> TRUE,
                      organizations |-> {o \in OrganizationIds : o <= p}]]

Init ==
    /\ InitLog /\ InitCache /\ InitFiles
    /\ InitContests /\ InitSubmissions /\ InitProfiles

\* ------------------------------------------------------------------- events
Event(signal, instance) == [signal |-> signal, instance |-> instance]

\* The state after a reaction that ended in world w.
React(e, reaction) ==
    \E w \in {reaction} :
    /\ event' = e
    /\ cache' = w.cache
    /\ files' = w.files
    /\ updating_stats_only' = w.updating_stats_only
    /\ Submission' = w.Submission
    /\ ContestSubmission' = w.ContestSubmission
    /\ ContestProblem' = w.ContestProblem
    /\ WebAuthnCredential' = w.WebAuthnCredential
    /\ Profile' = w.Profile
    /\ ran' = w.ran
    /\ calls' = w.calls
    /\ raised' = w.raised
    /\ unlinks' = w.unlinks
    /\ updated' = w.updated
    /\ UNCHANGED DMOJ_PDF_PROBLEM_CACHE

ProblemSave(instance) ==
    /\ React(Event("post_save", instance), problem_update(World, instance))
    /\ UNCHANGED csLast

ProfileSave(instance) ==
    /\ React(Event("post_save", instance), profile_update(World, instance))
    /\ UNCHANGED csLast

ContestSave(instance) ==
    /\ React(Event("post_save", instance), contest_update(World, instance))
    /\ UNCHANGED csLast

LicenseSave(instance) ==
    /\ instance.model = "License"
    /\ React(Event("post_save", instance), license_update(World, instance))
    /\ UNCHANGED csLast

LanguageSave(instance) ==
    /\ instance.model = "Language"
    /\ React(Event("post_save", instance), language_update(World, instance))
    /\ UNCHANGED csLast

JudgeSave(instance) ==
    /\ instance.model = "Judge"
    /\ React(Event("post_save", instance), judge_update(World, instance))
    /\ UNCHANGED csLast

CommentSave(instance) ==
    /\ instance.model = "Comment"
    /\ React(Event("post_save", instance), comment_update(World, instance))
    /\ UNCHANGED csLast

BlogPostSave(instance) ==
    /\ instance.model = "BlogPost"
    /\ React(Event("post_save", instance), post_update(World, instance))
    /\ UNCHANGED csLast

OrganizationSave(instance) ==
    /\ instance.model = "Organization"
    /\ React(Event("post_save", instance), organization_update(World, instance))
    /\ UNCHANGED csLast

MiscConfigSave(instance) ==
    /\ React(Event("post_save", instance), misc_config_update(World, instance))
    /\ UNCHANGED csLast

MiscConfigDelete(instance) ==
    /\ React(Event("post_delete", instance), misc_config_delete(World, instance))
    /\ UNCHANGED csLast

\* The row is gone when post_delete is sent.
WebAuthnCredentialDelete(instance) ==
    /\ instance.id \in WebAuthnCredential
    /\ React(Event("post_delete", instance),
             webauthn_delete([World EXCEPT !.WebAuthnCredential = @ \ {instance.id}],
                             instance))
    /\ UNCHANGED csLast

ContestProblemDelete(instance) ==
    /\ instance.id \in ContestProblem
    /\ React(Event("post_delete", instance),
             contest_problem_delete([World EXCEPT !.ContestProblem = @ \ {instance.id}],
                                    instance))
    /\ UNCHANGED csLast

HasContestSubmission(s) ==
    \E k \in ContestSubmissionIds :
        ContestSubmission[k].exists /\ ContestSubmission[k].submission_id = s

\* A Submission's ContestSubmission is deleted before it (the cascade is the
\* ContestSubmissionDelete event), so the Submission deleted here has none.
\* resave: the recomputations that find a value to persist.
SubmissionDelete(instance, resave) ==
    /\ Submission[instance.id].exists
    /\ ~ HasContestSubmission(instance.id)
    /\ React(Event("post_delete", instance),
             submission_delete([World EXCEPT !.Submission[instance.id] = NoSubmission,
                                             !.resave = resave],
                               instance))
    /\ UNCHANGED csLast

\* ContestSubmission.submission is one-to-one and references an existing row.
ContestSubmissionSave(instance) ==
    /\ Submission[instance.submission_id].exists
    /\ \A k \in ContestSubmissionIds \ {instance.id} :
           ~ (ContestSubmission[k].exists
              /\ ContestSubmission[k].submission_id = instance.submission_id)
    /\ React(Event("post_save", instance),
             contest_submission_update(
                 [World EXCEPT !.ContestSubmission[instance.id] =
                     [exists |-> TRUE, submission_id |-> instance.submission_id,
                      participation |-> instance.participation]],
                 instance))
    /\ csLast' = [csLast EXCEPT ![instance.submission_id] = "save"]

ContestSubmissionDelete(id) ==
    /\ ContestSubmission[id].exists
    /\ LET instance == ContestSubmissionInstance(id, ContestSubmission[id].submission_id,
                                                 ContestSubmission[id].participation)
       IN  /\ React(Event("post_delete", instance),
                    contest_submission_delete(
                        [World EXCEPT !.ContestSubmission[id] = NoContestSubmission],
                        instance))
           /\ csLast' = [csLast EXCEPT ![instance.submission_id] = "delete"]

ContestSubmissionInstances ==
    {ContestSubmissionInstance(k, s, p) :
        k \in ContestSubmissionIds, s \in SubmissionIds, p \in ParticipationIds}

Tick == nevents < MaxEvents /\ nevents' = nevents + 1

Next ==
    \/ \E i \in Problems : Tick /\ ProblemSave(i)
    \/ \E i \in Profiles : Tick /\ ProfileSave(i)
    \/ \E i \in Contests : Tick /\ ContestSave(i)
    \/ \E i \in Simples : Tick /\ LicenseSave(i)
    \/ \E i \in Simples : Tick /\ LanguageSave(i)
    \/ \E i \in Simples : Tick /\ JudgeSave(i)
    \/ \E i \in Simples : Tick /\ CommentSave(i)
    \/ \E i \in Simples : Tick /\ BlogPostSave(i)
    \/ \E i \in Simples : Tick /\ OrganizationSave(i)
    \/ \E i \in MiscConfigs : Tick /\ MiscConfigSave(i)
    \/ \E i \in MiscConfigs : Tick /\ MiscConfigDelete(i)
    \/ \E i \in WebAuthnCredentials : Tick /\ WebAuthnCredentialDelete(i)
    \/ \E i \in ContestProblems : Tick /\ ContestProblemDelete(i)
    \/ \E i \in Submissions, r \in SUBSET {"calculate_points", "update_stats"} :
           Tick /\ SubmissionDelete(i, r)
    \/ \E i \in ContestSubmissionInstances : Tick /\ ContestSubmissionSave(i)
    \/ \E k \in ContestSubmissionIds : Tick /\ ContestSubmissionDelete(k)

Spec == Init /\ [][Next]_vars

\* ------------------------------------------------- contest bookkeeping alone
\* Any sequence of ContestSubmission saves and deletions and ContestProblem
\* deletions, from any contest_object the submission view may have stored.
InitContest ==
    /\ InitLog /\ InitCache /\ InitFiles /\ InitContests /\ InitProfiles
    /\ Submission \in [SubmissionIds ->
                          [exists : {TRUE}, contest_object : ContestIds \cup {NULL}]]

NextContest ==
    \/ \E i \in ContestSubmissionInstances : ContestSubmissionSave(i) /\ UNCHANGED nevents
    \/ \E k \in ContestSubmissionIds : ContestSubmissionDelete(k) /\ UNCHANGED nevents
    \/ \E i \in ContestProblems : ContestProblemDelete(i) /\ UNCHANGED nevents

SpecContest == InitContest /\ [][NextContest]_vars

\* ------------------------------------------------- credential deletions alone
\* Any sequence of WebAuthnCredential deletions and Profile saves, from any
\* set of registered credentials; a profile without one has the flag off.
InitWebAuthn ==
    /\ InitLog /\ InitCache /\ InitFiles /\ InitContests /\ InitSubmissions
    /\ WebAuthnCredential \in SUBSET CredentialIds
    /\ Profile \in [ProfileIds ->
                       [is_webauthn_enabled : BOOLEAN, organizations : {{1}}]]
    /\ \A p \in ProfileIds :
           Profile[p].is_webauthn_enabled =>
               \E k \in WebAuthnCredential : WebAuthnCredential_user(k) = p

NextWebAuthn ==
    \/ \E i \in WebAuthnCredentials : WebAuthnCredentialDelete(i) /\ UNCHANGED nevents
    \/ \E i \in Profiles : ProfileSave(i) /\ UNCHANGED nevents

SpecWebAuthn == InitWebAuthn /\ [][NextWebAuthn]_vars

\* ------------------------------------------------------- cached PDFs alone
\* Problem saves over every state of the PDF cache directory, with the
\* setting configured or not.
InitPdf ==
    /\ InitLog /\ InitCache /\ InitContests /\ InitSubmissions /\ InitProfiles
    /\ DMOJ_PDF_PROBLEM_CACHE \in {"", PdfCacheDir}
    /\ files \in [PdfFiles -> {"file", "absent", "denied"}]
    /\ \A f \in PdfFiles : files[f] # "file" =>
           \E p \in ProblemIds, l \in LanguageCodes :
               f = PdfCacheDir \o "/" \o Problem_code(p) \o "." \o l \o ".pdf"

NextPdf ==
    \E i \in Problems : ProblemSave(i) /\ UNCHANGED nevents

SpecPdf == InitPdf /\ [][NextPdf]_vars

\* =================================================================== claims
EventIs(e, signal, model) == e.signal = signal /\ e.instance.model = model

PdfOf(p, l) == "/pdfcache/p" \o ToString(p) \o "." \o l \o ".pdf"

\* The cache keys of Problem p, as the templates and views name them.
ProblemKeys(p) ==
    LET i == ToString(p)
    IN  {"template.cache.submission_problem." \o i \o ":",
         "template.cache.problem_feed." \o i \o ":",
         "problem_tls:" \o i, "problem_mls:" \o i}
        \cup {"template.cache.problem_html." \o i \o ":" \o e \o ":" \o l \o ":" :
                 e \in {"svg", "jax"}, l \in {"en", "fr"}}
        \cup {"template.cache.problem_authors." \o i \o ":" \o l \o ":" : l \in {"en", "fr"}}
        \cup {"generated-meta-problem:" \o l \o ":" \o i : l \in {"en", "fr"}}

\* The cache keys of Profile p: its user_about fragments and the member
\* counts of its organizations.
ProfileKeys(p) ==
    {"template.cache.user_about." \o ToString(p) \o ":" \o e \o ":" : e \in {"svg", "jax"}}
    \cup {"template.cache.org_member_count." \o ToString(o) \o ":" :
             o \in Profile[p].organizations}

\* C1: a post_save of a Problem, Profile or Contest instance that carries
\* _updating_stats_only leaves the cache and the cached PDF files as they were:
\* no key is deleted and no file is unlinked.
C1_GuardedSaveChangesNothing ==
    [][(/\ event'.signal = "post_save"
        /\ event'.instance.model \in {"Problem", "Profile", "Contest"}
        /\ event'.instance \in updating_stats_only)
       => (cache' = cache /\ files' = files /\ unlinks' = <<>>)]_vars

C1_Witness ==
    /\ EventIs(event, "post_save", "Problem")
    /\ event.instance \in updating_stats_only
    /\ ran = <<"problem_update">>
    /\ ProblemKeys(event.instance.id) \subseteq cache
    /\ \A l \in {"en", "fr"} : files[PdfOf(event.instance.id, l)] = "file"

\* C2: after problem_update handled the save of a Problem that does not carry
\* _updating_stats_only, none of that problem's keys is in the cache.
C2_ProblemKeysAbsent ==
    (EventIs(event, "post_save", "Problem") /\ event.instance \notin updating_stats_only)
        => ProblemKeys(event.instance.id) \cap cache = {}

C2_Witness ==
    /\ EventIs(event, "post_save", "Problem")
    /\ event.instance \notin updating_stats_only
    /\ event.instance.id = 1
    /\ ProblemKeys(1) \subseteq CachedKeys
    /\ Cardinality(ProblemKeys(1)) = 12
    /\ ProblemKeys(2) \subseteq cache

\* The collaborator calls of the reaction, without the saves they made.
Recomputations == SelectSeq(calls, LAMBDA c : c.fn # "save")

\* C3: a Submission deletion that completes has called, once each and in this
\* order, finished_submission on the submission, calculate_points on its user
\* and update_stats on its problem.
C3_DeleteRecomputes ==
    (EventIs(event, "post_delete", "Submission") /\ ~raised) =>
        /\ Len(Recomputations) = 3
        /\ Recomputations[1].fn = "finished_submission"
        /\ Recomputations[1].on = event.instance
        /\ Recomputations[2].fn = "calculate_points"
        /\ Recomputations[2].on.model = "Profile"
        /\ Recomputations[2].on.id = Submission_user(event.instance.id)
        /\ Recomputations[3].fn = "update_stats"
        /\ Recomputations[3].on.model = "Problem"
        /\ Recomputations[3].on.id = Submission_problem(event.instance.id)

C3_Witness ==
    /\ EventIs(event, "post_delete", "Submission")
    /\ ~raised
    /\ ~Submission[event.instance.id].exists
    /\ Len(calls) = 5

\* C4: in a Submission deletion the user carries the flag when
\* calculate_points is called and the problem carries it when update_stats is
\* called, every save made by the recomputations is a save of a flagged
\* object, and the deletion removes none of the user's and none of the
\* problem's cache keys and no cached PDF.
C4_DeleteKeepsCaches ==
    [][EventIs(event', "post_delete", "Submission") =>
        LET u == Submission_user(event'.instance.id)
            p == Submission_problem(event'.instance.id)
        IN  /\ \A j \in 1..Len(calls') :
                   calls'[j].fn \in {"calculate_points", "update_stats", "save"}
                       => calls'[j].flagged
            /\ (ProfileKeys(u) \cup ProblemKeys(p)) \cap cache \subseteq cache'
            /\ files' = files]_vars

C4_Witness ==
    /\ EventIs(event, "post_delete", "Submission")
    /\ ran = <<"submission_delete", "profile_update", "problem_update">>
    /\ ProfileKeys(Submission_user(event.instance.id)) \subseteq cache
    /\ ProblemKeys(Submission_problem(event.instance.id)) \subseteq cache
    /\ files[PdfOf(Submission_problem(event.instance.id), "en")] = "file"

\* C5: deleting a ContestSubmission calls recompute_results on its
\* participation and leaves the Submission with id submission_id with a null
\* contest_object; every other Submission row is unchanged.
C5_ContestSubmissionDeleteFrame ==
    [][EventIs(event', "post_delete", "ContestSubmission") =>
        LET row == ContestSubmission[event'.instance.id]
        IN  /\ Len(calls') = 1
            /\ calls'[1].fn = "recompute_results"
            /\ calls'[1].on.model = "ContestParticipation"
            /\ calls'[1].on.id = row.participation
            /\ Submission'[row.submission_id].contest_object = NULL
            /\ \A s \in SubmissionIds \ {row.submission_id} :
                   Submission'[s] = Submission[s]]_vars

C5_Witness ==
    /\ EventIs(event, "post_delete", "ContestSubmission")
    /\ updated = {event.instance.submission_id}
    /\ event.instance.id # event.instance.submission_id
    /\ \E s \in SubmissionIds : Submission[s].contest_object # NULL

\* C6: deleting a ContestProblem nulls contest_object on exactly the
\* Submissions that point at its contest and have no ContestSubmission; every
\* other Submission row is unchanged.
C6_ContestProblemDeleteFrame ==
    [][EventIs(event', "post_delete", "ContestProblem") =>
        \A s \in SubmissionIds :
            Submission'[s] =
                IF /\ Submission[s].exists
                   /\ Submission[s].contest_object = ContestProblem_contest(event'.instance.id)
                   /\ ~HasContestSubmission(s)
                    THEN [Submission[s] EXCEPT !.contest_object = NULL]
                    ELSE Submission[s]]_vars

C6_Witness ==
    /\ EventIs(event, "post_delete", "ContestProblem")
    /\ updated # {}
    /\ \E s \in SubmissionIds :
           /\ HasContestSubmission(s)
           /\ Submission[s].contest_object = ContestProblem_contest(event.instance.id)

\* The receiver bound to each (signal, sender) pair.
ReceiverOf(e) ==
    LET m == e.instance.model
    IN  IF e.signal = "post_save"
            THEN CASE m = "Problem" -> "problem_update"
                   [] m = "Profile" -> "profile_update"
                   [] m = "Contest" -> "contest_update"
                   [] m = "License" -> "license_update"
                   [] m = "Language" -> "language_update"
                   [] m = "Judge" -> "judge_update"
                   [] m = "Comment" -> "comment_update"
                   [] m = "BlogPost" -> "post_update"
                   [] m = "Organization" -> "organization_update"
                   [] m = "MiscConfig" -> "misc_config_update"
                   [] m = "ContestSubmission" -> "contest_submission_update"
            ELSE CASE m = "WebAuthnCredential" -> "webauthn_delete"
                   [] m = "ContestProblem" -> "contest_problem_delete"
                   [] m = "Submission" -> "submission_delete"
                   [] m = "ContestSubmission" -> "contest_submission_delete"
                   [] m = "MiscConfig" -> "misc_config_delete"

RemainingIn(credentials, p) ==
    Cardinality({k \in credentials : WebAuthnCredential_user(k) = p})

RemainingCredentials(p) == RemainingIn(WebAuthnCredential, p)

\* C7 as stated: the reaction to an event runs the event's receiver and no
\* other receiver of this file.
C7_SingleStep == Len(ran) <= 1

\* The saves made inside the reaction, in order.
Saves == SelectSeq(calls, LAMBDA c : c.fn = "save")

\* C7 as amended: the reaction runs the event's receiver first; every further
\* receiver is the one of a record saved inside the reaction, in the order of
\* the saves; only webauthn_delete and submission_delete lead to such a save,
\* and webauthn_delete does exactly when no credential remains (one save, of
\* the profile, which runs profile_update).
C7_SingleStepBut ==
    event.signal # "none" =>
        /\ Len(ran) >= 1
        /\ ran[1] = ReceiverOf(event)
        /\ Tail(ran) = [j \in 1..Len(Saves) |->
                           ReceiverOf(Event("post_save", Saves[j].on))]
        /\ Saves # <<>> => ran[1] \in {"webauthn_delete", "submission_delete"}
        /\ ran[1] = "webauthn_delete" =>
             Tail(ran) =
                 IF RemainingCredentials(WebAuthnCredential_user(event.instance.id)) = 0
                     THEN <<"profile_update">> ELSE <<>>

C7_Witness ==
    /\ EventIs(event, "post_delete", "WebAuthnCredential")
    /\ ran = <<"webauthn_delete", "profile_update">>
    /\ ~Profile[WebAuthnCredential_user(event.instance.id)].is_webauthn_enabled
    /\ ProfileKeys(WebAuthnCredential_user(event.instance.id)) \cap cache = {}

\* C8: under ContestSubmission saves and deletions and ContestProblem
\* deletions, a Submission that has a ContestSubmission has the contest of
\* that ContestSubmission's participation as contest_object, and a Submission
\* whose ContestSubmission was deleted has a null contest_object.
C8_ContestObjectFollows ==
    \A s \in SubmissionIds :
        /\ \A k \in ContestSubmissionIds :
               (ContestSubmission[k].exists /\ ContestSubmission[k].submission_id = s)
                   => Submission[s].contest_object =
                          Participation_contest(ContestSubmission[k].participation)
        /\ (csLast[s] = "delete" /\ ~HasContestSubmission(s))
               => Submission[s].contest_object = NULL

C8_Witness ==
    /\ ContestProblem = {}
    /\ \E s \in SubmissionIds :
           HasContestSubmission(s) /\ Submission[s].contest_object # NULL
    /\ \E s \in SubmissionIds : csLast[s] = "delete" /\ ~HasContestSubmission(s)

\* C9: under WebAuthnCredential deletions a profile without credentials has
\* is_webauthn_enabled off, and a deletion that leaves a credential on the
\* profile changes no Profile row and saves nothing.
C9_WebAuthnFlag ==
    [][/\ \A p \in ProfileIds :
              RemainingIn(WebAuthnCredential', p) = 0 => ~Profile'[p].is_webauthn_enabled
       /\ (/\ EventIs(event', "post_delete", "WebAuthnCredential")
           /\ RemainingIn(WebAuthnCredential',
                          WebAuthnCredential_user(event'.instance.id)) >= 1)
              => (Profile' = Profile /\ calls' = <<>> /\ ran' = <<"webauthn_delete">>)]_vars

C9_Witness ==
    /\ EventIs(event, "post_delete", "WebAuthnCredential")
    /\ RemainingCredentials(WebAuthnCredential_user(event.instance.id)) = 0
    /\ Len(calls) = 1
    /\ calls[1].fn = "save"
    /\ \E p \in ProfileIds : RemainingCredentials(p) >= 1 /\ Profile[p].is_webauthn_enabled

\* The languages whose cached PDF of problem p os.unlink refuses to remove.
Denied(p) == {k \in 1..Len(LANGUAGES) : files[PdfOf(p, LANGUAGES[k][1])] = "denied"}

FirstDenied(p) ==
    IF Denied(p) = {} THEN Len(LANGUAGES) + 1
    ELSE CHOOSE k \in Denied(p) : \A j \in Denied(p) : k <= j

\* C10: an unguarded problem_update touches no file when
\* DMOJ_PDF_PROBLEM_CACHE is unset; otherwise it removes the problem's PDF of
\* every language, skipping the missing ones, up to the first whose unlink
\* fails with an error other than ENOENT, which it propagates.  It returns
\* normally exactly when there is no such file, and then no PDF of the problem
\* is left.
C10_PdfUnlink ==
    [][(EventIs(event', "post_save", "Problem") /\ event'.instance \notin updating_stats_only)
       => LET p == event'.instance.id
              removed == {PdfOf(p, LANGUAGES[k][1]) : k \in 1..(FirstDenied(p) - 1)}
          IN  IF DMOJ_PDF_PROBLEM_CACHE = ""
                  THEN files' = files /\ unlinks' = <<>> /\ ~raised'
                  ELSE /\ raised' = (Denied(p) # {})
                       /\ \A f \in DOMAIN files :
                              files'[f] = IF f \in removed THEN "absent" ELSE files[f]
                       /\ (~raised' =>
                              \A l \in {"en", "fr"} : files'[PdfOf(p, l)] = "absent")]_vars

C10_Witness ==
    /\ EventIs(event, "post_save", "Problem")
    /\ event.instance \notin updating_stats_only
    /\ ~raised
    /\ Len(unlinks) = 2
    /\ unlinks[1][2] = "ENOENT"
    /\ unlinks[2][2] = "OK"
    /\ \E f \in DOMAIN files : files[f] = "denied"

\* C11: after profile_update handled the save of a Profile that does not
\* carry _updating_stats_only, the cache holds no user_about fragment of the
\* profile for any math engine and no org_member_count fragment of any
\* organization the profile is a member of.
C11_ProfileKeysAbsent ==
    (EventIs(event, "post_save", "Profile") /\ event.instance \notin updating_stats_only)
        => ProfileKeys(event.instance.id) \cap cache = {}

C11_Witness ==
    /\ EventIs(event, "post_save", "Profile")
    /\ event.instance \notin updating_stats_only
    /\ Profile[event.instance.id].organizations = {1, 2}
    /\ Cardinality(ProfileKeys(event.instance.id)) = 4
    /\ ProfileKeys(event.instance.id) \subseteq CachedKeys
    /\ ProfileKeys(event.instance.id) \cap cache = {}
    /\ "template.cache.user_about.1:svg:" \in cache

\* The cache keys of row i of a model whose receiver has no guard.
UnguardedKeys(m, i) ==
    LET id == ToString(i)
    IN  CASE m = "License" -> {"template.cache.license_html." \o id \o ":"}
          [] m = "Language" -> {"template.cache.language_html." \o id \o ":", "lang:cn_map"}
          [] m = "Judge" -> {"template.cache.judge_html." \o id \o ":"}
          [] m = "Comment" -> {"comment_feed:" \o id}
          [] m = "BlogPost" ->
                {"template.cache.post_summary." \o id \o ":",
                 "blog_slug:" \o id, "blog_feed:" \o id,
                 "template.cache.post_content." \o id \o ":svg:",
                 "template.cache.post_content." \o id \o ":jax:"}
          [] m = "Organization" ->
                {"template.cache.organization_html." \o id \o ":svg:",
                 "template.cache.organization_html." \o id \o ":jax:"}
          [] m = "MiscConfig" -> {"misc_config"}
          [] OTHER -> {}

\* C12: after a save of a License, Language, Judge, Comment, BlogPost,
\* Organization or MiscConfig, and after a delete of a MiscConfig, the keys of
\* the instance are absent from the cache, whether or not the instance carries
\* _updating_stats_only.
C12_UnguardedKeysAbsent ==
    (\/ (/\ event.signal = "post_save"
         /\ event.instance.model \in
                {"License", "Language", "Judge", "Comment", "BlogPost",
                 "Organization", "MiscConfig"})
     \/ EventIs(event, "post_delete", "MiscConfig"))
        => UnguardedKeys(event.instance.model, event.instance.id) \cap cache = {}

C12_Witness ==
    /\ EventIs(event, "post_save", "BlogPost")
    /\ event.instance \in updating_stats_only
    /\ event.instance.id = 1
    /\ UnguardedKeys("BlogPost", 1) \subseteq CachedKeys
    /\ UnguardedKeys("BlogPost", 1) \cap cache = {}
    /\ UnguardedKeys("BlogPost", 2) \subseteq cache

\* The keys of the record behind an in-memory Profile or Problem object.
RecordKeys(instance) ==
    IF instance.model = "Profile" THEN ProfileKeys(instance.id)
    ELSE ProblemKeys(instance.id)

\* The signal is an ordinary save of the user or problem object that an
\* earlier submission_delete flagged: the submission it was reached through is
\* deleted, and the save is the event itself, not a resave inside the delete.
LaterSaveOfFlagged ==
    /\ event.signal = "post_save"
    /\ event.instance.model \in {"Profile", "Problem"}
    /\ event.instance.via = "Submission"
    /\ ~ Submission[event.instance.n].exists
    /\ event.instance \in updating_stats_only

\* C13: after submission_delete has returned, a later ordinary save of the
\* same in-memory user or problem object that submission_delete flagged still
\* invalidates the cache keys of that record.
C13_LaterSaveInvalidates ==
    LaterSaveOfFlagged => RecordKeys(event.instance) \cap cache = {}

\* The cache keys of Contest c.
ContestKeys(c) ==
    {"generated-meta-contest:" \o ToString(c),
     "template.cache.contest_html." \o ToString(c) \o ":svg:",
     "template.cache.contest_html." \o ToString(c) \o ":jax:"}

\* The keys a handler may delete for an instance: those parameterised by the
\* instance's id, the member counts of a profile's organizations, and the two
\* global keys.
OwnKeys(instance) ==
    CASE instance.model = "Problem" -> ProblemKeys(instance.id)
      [] instance.model = "Profile" -> ProfileKeys(instance.id)
      [] instance.model = "Contest" -> ContestKeys(instance.id)
      [] OTHER -> UnguardedKeys(instance.model, instance.id)

\* The instances saved by the calls cs.
SavedIn(cs) == {cs[j].on : j \in {k \in DOMAIN cs : cs[k].fn = "save"}}

\* C14: a reaction deletes only keys of the instance whose signal it handles
\* and of the instances saved in the reaction; every other cache entry, and so
\* every entry of another id of the same model, is unchanged.
C14_OnlyOwnKeys ==
    [][cache \ cache' \subseteq
           UNION {OwnKeys(i) : i \in {event'.instance} \cup SavedIn(calls')}]_vars

C14_Witness ==
    /\ EventIs(event, "post_save", "Language")
    /\ event.instance.id = 1
    /\ nevents = 1
    /\ CachedKeys \ cache = {"template.cache.language_html.1:", "lang:cn_map"}
    /\ {"template.cache.language_html.2:", "template.cache.language_html.11:"}
           \subseteq cache

\* The receivers that a reaction started by receiver r may run after it, in
\* order.
ChainsAfter(r) ==
    CASE r = "webauthn_delete" -> {<<>>, <<"profile_update">>}
      [] r = "submission_delete" ->
            {<<>>, <<"profile_update">>, <<"problem_update">>,
             <<"profile_update", "problem_update">>}
      [] OTHER -> {<<>>}

\* C15: the chain of receivers run by the reaction to one signal is finite and
\* has one of the listed shapes: webauthn_delete runs at most profile_update,
\* submission_delete runs at most a guarded profile_update and a guarded
\* problem_update, every other receiver runs alone and saves nothing; no
\* receiver runs twice in one reaction.
C15_ChainFinite ==
    /\ Len(ran) <= 3
    /\ \A i, j \in DOMAIN ran : i # j => ran[i] # ran[j]
    /\ ran # <<>> =>
          /\ ran[1] = ReceiverOf(event)
          /\ Tail(ran) \in ChainsAfter(ran[1])
          /\ Len(ran) = 1 + Len(Saves)
          /\ ran[1] = "submission_delete" =>
                 \A j \in DOMAIN Saves : Saves[j].flagged

C15_Witness ==
    /\ Len(ran) = 3
    /\ ran[1] = "submission_delete"
    /\ Len(Saves) = 2
    /\ \A j \in DOMAIN Saves : Saves[j].flagged /\ Saves[j].on.via = "Submission"
    /\ cache = CachedKeys

====
